---- MODULE Spec2Model ----
(***************************************************************************)
(* Model of the Newton-Raphson power-flow wrapper KLU4Pandapower.runpp /   *)
(* newtonpf (src/pyklu/compute_powerflow.py) and of the pandapower to      *)
(* GridModel conversion init (src/lightsim2grid/initGridModel.py).         *)
(*                                                                         *)
(* The network of the runpp model has two buses: bus 0 carries the         *)
(* ext_grid (reference bus, V = 1), bus 1 carries a load and an optional   *)
(* generator (PV when in service, PQ otherwise), and is tied to bus 0 by   *)
(* one line.  Complex numbers are pairs <<re, im>> of integers,   *)
(* so that the mismatch S - V conj(Ybus V) is computed exactly.            *)
(***************************************************************************)
EXTENDS Integers, Sequences, FiniteSets, TLC

VARIABLES
    pc,         \* position of the running runpp call: "idle", "solving", "solved"
    net,        \* the pandapower net handed to runpp (element status, load, net["converged"])
    options,    \* net["_options"] of the current call, and its need_reset argument
    self,       \* the fields of the KLU4Pandapower instance
    solver,     \* the state of self.solver (KLUSolver)
    exc,        \* the exception the last runpp call raised, or None
    solve_call, \* the arguments of the call of self.solver.solve the last runpp made, if it made one
    last,       \* Sbus of the last completed solve, if that was a converged need_reset solve
    probe,      \* response and terminal state of the last completed solve, when kept
    pp_net,     \* the pandapower network handed to init
    model       \* the GridModel built by init

vars == <<pc, net, options, self, solver, exc, solve_call, last, probe, pp_net, model>>

runppVars == <<pc, net, options, self, solver, exc, solve_call, last, probe>>
initVars == <<pp_net, model>>

\* no exception
NoException == "None"

\* Python's None, and a value that is set: optional values are sequences of length 0 or 1
None == <<>>
Some(x) == <<x>>
Get(o) == o[1]

-----------------------------------------------------------------------------
(* Bounds of the model *)

\* largest max_iteration a caller passes to runpp
MaxIter == 2

\* largest number of generators in the network handed to init
MaxGen == 2

-----------------------------------------------------------------------------
(* Complex arithmetic on pairs of integers *)

CAdd(a, b) == <<a[1] + b[1], a[2] + b[2]>>
CSub(a, b) == <<a[1] - b[1], a[2] - b[2]>>
CMul(a, b) == <<a[1] * b[1] - a[2] * b[2], a[1] * b[2] + a[2] * b[1]>>
CConj(a) == <<a[1], 0 - a[2]>>
CZero == <<0, 0>>
COne == <<1, 0>>
CJ == <<0, 1>>
Abs(x) == IF x < 0 THEN 0 - x ELSE x

Buses == {0, 1}

\* Voltages live on the grid 0, 1, j, -1, -j
Grid == {<<0, 0>>, <<1, 0>>, <<0, 1>>, <<-1, 0>>, <<0, -1>>}

(* Polar form.  Vm is the magnitude (0 or 1), Va the angle in units of 90    *)
(* degrees (0..3); angle(0) = 0 as numpy.angle does.                        *)
Quadrant(c) ==
    CASE c = <<0, 0>> -> 0
      [] c = <<1, 0>> -> 0
      [] c = <<0, 1>> -> 1
      [] c = <<-1, 0>> -> 2
      [] c = <<0, -1>> -> 3

Magnitude(c) == Abs(c[1]) + Abs(c[2])

\* exp(1j * Va)
Direction(o) ==
    CASE o = 0 -> <<1, 0>>
      [] o = 1 -> <<0, 1>>
      [] o = 2 -> <<-1, 0>>
      [] o = 3 -> <<0, -1>>

\* the polar pairs (Vm, Va) that denote a grid point
PolarGrid == {<<0, 0>>} \cup {<<1, o>> : o \in 0..3}

-----------------------------------------------------------------------------
(* The network handed to runpp and its conversion (pandapower calls) *)

\* series admittance of the line between bus 0 and bus 1
YLine == <<0, -1>>

\* the complex power injections (generation - load) the net may hold at bus 1
Loads == {<<0, 0>>, <<-1, 1>>}

Nets == [line : BOOLEAN, gen : BOOLEAN, load : Loads, converged : BOOLEAN]

\* _pd2ppc(net): the internal case file, a snapshot of the net without stored results
pd2ppc(n) == [line |-> n.line, gen |-> n.gen, load |-> n.load,
              dc |-> FALSE, internal |-> None]

\* _run_dc_pf(ppci): writes the DC voltage angles into the case file
run_dc_pf(ppci) == [ppci EXCEPT !.dc = TRUE]

\* _store_internal(ppci, {...}): keeps the solve's results in the case file
store_internal(ppci, success) == [ppci EXCEPT !.internal = [success |-> success]]

Scale(on, y) == IF on THEN y ELSE CZero

\* makeYbus: the bus admittance matrix of the elements in service (pi model, no charging)
makeYbus(ppci) ==
    [i \in Buses |-> [k \in Buses |->
        IF i # k THEN CSub(CZero, Scale(ppci.line, YLine))
        ELSE Scale(ppci.line, YLine)]]

\* the branch admittance rows Yf (from side) and Yt (to side) of the line
makeYf(ppci) == [k \in Buses |-> IF k = 0 THEN Scale(ppci.line, YLine)
                                 ELSE CSub(CZero, Scale(ppci.line, YLine))]
makeYt(ppci) == [k \in Buses |-> IF k = 1 THEN Scale(ppci.line, YLine)
                                 ELSE CSub(CZero, Scale(ppci.line, YLine))]

\* _get_pf_variables_from_ppci: bus classification and start voltage.  A flat
\* start is 1 at every bus; after _run_dc_pf bus 1 starts at the DC angle
\* (-90 degrees when bus 1 draws active power).
get_pf_variables_from_ppci(ppci) ==
    [baseMVA |-> "baseMVA",
     bus |-> [solved |-> FALSE],
     gen |-> [in_service |-> ppci.gen, solved |-> FALSE],
     branch |-> [in_service |-> ppci.line, solved |-> FALSE],
     ref |-> {0},
     pv |-> IF ppci.gen THEN {1} ELSE {},
     pq |-> IF ppci.gen THEN {} ELSE {1},
     V0 |-> [b \in Buses |-> IF b = 1 /\ ppci.dc /\ ppci.load[1] < 0 THEN <<0, -1>> ELSE COne],
     ref_gens |-> {0}]

\* _get_Sbus(ppci): per-bus injection; the reference bus carries none
get_Sbus(ppci) == [b \in Buses |-> IF b = 1 THEN ppci.load ELSE CZero]

\* ppci_to_pfsoln: the data tables updated with the solution
ppci_to_pfsoln(tab) == [tab EXCEPT !.solved = TRUE]

\* sparse.csc_matrix(Ybus): a change of storage format that keeps the entries.
\* Of None it makes a 1 x 1 matrix without entries in the scipy versions that
\* only warn about the object dtype, and raises in the others.
Degenerate == [i \in {0} |-> [k \in {0} |-> CZero]]
csc_matrix(Y) == IF Y = None THEN Some(Degenerate) ELSE Y

-----------------------------------------------------------------------------
(* KLUSolver: the Newton-Raphson solver *)

\* tolerance_mva on the integer grid: a mismatch below it is a mismatch of 0
Tol == 1

Terminal == {"CONVERGED", "DIVERGED", "MAX_ITER_EXCEEDED"}

\* V as the solver holds it (Vm, Va), and the phasor of a pair (Vm, Va)
ToPolar(c) == <<Magnitude(c), Quadrant(c)>>
Phasor(p) == IF p[1] = 0 THEN CZero ELSE Direction(p[2])

\* I = Ybus V at bus b, and the mismatch Sbus - V conj(I) at bus b
Current(Y, V, b) == CAdd(CMul(Y[b][0], V[0]), CMul(Y[b][1], V[1]))
Mismatch(Y, V, S, b) == CSub(S[b], CMul(V[b], CConj(Current(Y, V, b))))

\* max(|dP|, |dQ|) < tol: dP at PV and PQ buses, dQ at PQ buses only
BelowTolerance(Y, V, S, pvb, pqb) ==
    /\ \A b \in pvb \cup pqb : Abs(Mismatch(Y, V, S, b)[1]) < Tol
    /\ \A b \in pqb : Abs(Mismatch(Y, V, S, b)[2]) < Tol

\* The Jacobian at the one unknown bus 1: dS/dVa = j V1 conj(Y10 V0) and
\* |V| dS/d|V| = V1 conj(I1) + conj(Y11) |V1|^2; rows P and Q, the |V| column
\* only for a PQ bus.
dS_dVa(Y, V) == CMul(CJ, CMul(V[1], CConj(CMul(Y[1][0], V[0]))))
dS_dVm(Y, V) == CAdd(CMul(V[1], CConj(Current(Y, V, 1))),
                     CMul(CConj(Y[1][1]), <<Magnitude(V[1]) * Magnitude(V[1]), 0>>))
Jacobian(Y, V, pvb, pqb) ==
    IF 1 \in pqb
    THEN <<dS_dVa(Y, V)[1], dS_dVm(Y, V)[1], dS_dVa(Y, V)[2], dS_dVm(Y, V)[2]>>
    ELSE <<dS_dVa(Y, V)[1]>>

Singular(J) == IF Len(J) = 4 THEN J[1] * J[4] - J[2] * J[3] = 0 ELSE J[1] = 0

\* the iterates a Newton step may move bus 1 to: angle and magnitude of a PQ
\* bus change, only the angle of a PV bus; a step of a nonzero mismatch is nonzero
Steps(p, pvb) == {q \in PolarGrid : q # p /\ (1 \in pvb => q[1] = p[1])}

FreshSolver == [state |-> "UNINITIALIZED", V |-> None, nb_iter |-> 0, nb_factor |-> 0, J |-> None]

-----------------------------------------------------------------------------
(* KLU4Pandapower *)

\* KLU4Pandapower.__init__
NewInstance ==
    [ppci |-> None, V |-> None, Ybus |-> None, Yf |-> None, Yt |-> None,
     bus |-> None, gen |-> None, branch |-> None, ref |-> None,
     pv |-> None, pq |-> None, ref_gens |-> None, baseMVA |-> None]

\* the local variable options of runpp outside a call
NoOptions == [max_iteration |-> 0, need_reset |-> TRUE, enforce_q_lims |-> FALSE,
              init_dc |-> FALSE]

\* a solver that is handed one iteration more than the options allow
PassedMaxItPlusOne(o) == o.max_iteration + 1

\* max_it = options["max_iteration"]
PassedMaxIt(o) == o.max_iteration

\* self.V = V0 of a solve with need_reset
StartVoltage(V0) == Some(V0)

\* runpp raises: the call is over, the instance keeps what was assigned so far
Raise(name, s, n, args) ==
    /\ exc' = name
    /\ self' = s
    /\ net' = n
    /\ options' = NoOptions
    /\ pc' = "idle"
    /\ solve_call' = args

\* the binding of solver.solve refuses arguments that are not arrays of the network's size
Acceptable(s) ==
    /\ s.V # None /\ s.pv # None /\ s.pq # None
    /\ s.Ybus # None /\ DOMAIN Get(s.Ybus) = Buses

\* lines 147-164 of runpp: Sbus, the csc conversion, the reset and the call of solver.solve
CallSolver(s, V0, n, o) ==
    LET Sbus == get_Sbus(Get(s.ppci))
        s1 == [s EXCEPT !.Ybus = csc_matrix(s.Ybus)]
        s2 == IF o.need_reset THEN [s1 EXCEPT !.V = V0] ELSE s1
        sv == IF o.need_reset THEN FreshSolver ELSE solver
        args == [Ybus |-> s2.Ybus, V |-> s2.V, Sbus |-> Sbus, pv |-> s2.pv, pq |-> s2.pq,
                 max_it |-> PassedMaxIt(o), enforce_q_lims |-> o.enforce_q_lims]
    IN  \/ /\ s.Ybus = None
           /\ Raise("TypeError", s, n, None)
           /\ UNCHANGED solver
        \/ /\ ~Acceptable(s2)
           /\ Raise("TypeError", s2, n, Some(args))
           /\ solver' = sv
        \/ /\ Acceptable(s2)
           /\ exc' = NoException
           /\ self' = s2
           /\ net' = n
           /\ options' = o
           /\ pc' = "solving"
           /\ solve_call' = Some(args)
           /\ solver' = [sv EXCEPT !.state = "ITERATING",
                                   !.V = Some([b \in Buses |-> ToPolar(Get(s2.V)[b])]),
                                   !.nb_iter = 0, !.nb_factor = 0]

\* whether runpp rejects the configuration in its need_reset branch
Rejected(o) == o.enforce_q_lims

\* the fields the need_reset branch takes from the case file (lines 139-140)
ResetFields(s, ppci) ==
    LET pfv == get_pf_variables_from_ppci(ppci)
    IN  [s EXCEPT !.baseMVA = Some(pfv.baseMVA), !.bus = Some(pfv.bus),
                  !.gen = Some(pfv.gen), !.branch = Some(pfv.branch),
                  !.ref = Some(pfv.ref), !.pv = Some(pfv.pv),
                  !.pq = Some(pfv.pq), !.ref_gens = Some(pfv.ref_gens),
                  !.Ybus = Some(makeYbus(ppci)),
                  !.Yf = Some(makeYf(ppci)), !.Yt = Some(makeYt(ppci))]

\* runpp, up to the call of solver.solve
Runpp(n, max_iteration, need_reset, enforce_q_lims, init_dc) ==
    /\ pc = "idle"
    /\ LET o == [max_iteration |-> max_iteration, need_reset |-> need_reset,
                 enforce_q_lims |-> enforce_q_lims, init_dc |-> init_dc]
           n1 == [n EXCEPT !.converged = FALSE]
           ppci0 == pd2ppc(n1)
           s0 == [self EXCEPT !.ppci = Some(ppci0)]
       IN  IF need_reset
           THEN LET ppci1 == IF init_dc THEN run_dc_pf(ppci0) ELSE ppci0
                    s1 == [s0 EXCEPT !.ppci = Some(ppci1)]
                IN  IF Rejected(o)
                    THEN Raise("NotImplementedError", s1, n1, None) /\ UNCHANGED solver
                    ELSE CallSolver(ResetFields(s1, ppci1),
                                    StartVoltage(get_pf_variables_from_ppci(ppci1).V0), n1, o)
           ELSE CallSolver(s0, None, n1, o)
    /\ UNCHANGED <<last, probe, pp_net, model>>

\* the arguments the running solve was called with
Arg == Get(solve_call)
SolverV == [b \in Buses |-> Phasor(Get(solver.V)[b])]
ArgsConverged == BelowTolerance(Get(Arg.Ybus), SolverV, Arg.Sbus, Get(Arg.pv), Get(Arg.pq))

Iterating == pc = "solving" /\ solver.state = "ITERATING"

\* whether the iteration budget allows another Newton iteration
BudgetLeft == solver.nb_iter < Arg.max_it

Finish(state, nb_iter) ==
    /\ solver' = [solver EXCEPT !.state = state, !.nb_iter = nb_iter]
    /\ pc' = "solved"
    /\ UNCHANGED <<net, options, self, exc, solve_call, last, probe, pp_net, model>>

\* step 2: the mismatch is below the tolerance
NewtonConverged ==
    /\ Iterating
    /\ ArgsConverged
    /\ Finish("CONVERGED", solver.nb_iter)

\* the iteration budget is spent and the mismatch is not below the tolerance
NewtonMaxIter ==
    /\ Iterating
    /\ ~ArgsConverged
    /\ ~BudgetLeft
    /\ Finish("MAX_ITER_EXCEEDED", solver.nb_iter)

\* steps 3 and 4, first half: the Jacobian is assembled and factorized
NewtonFactorize ==
    /\ Iterating
    /\ ~ArgsConverged
    /\ BudgetLeft
    /\ LET J == Jacobian(Get(Arg.Ybus), SolverV, Get(Arg.pv), Get(Arg.pq))
       IN  /\ ~Singular(J)
           /\ solver' = [solver EXCEPT !.state = "FACTORIZED", !.J = Some(J),
                                       !.nb_factor = solver.nb_factor + 1]
    /\ UNCHANGED <<pc, net, options, self, exc, solve_call, last, probe, pp_net, model>>

\* the factorization fails (a singular or ill-conditioned Jacobian); whether the
\* failed iteration is counted is left open
NewtonDiverge ==
    /\ Iterating
    /\ ~ArgsConverged
    /\ BudgetLeft
    /\ LET J == Jacobian(Get(Arg.Ybus), SolverV, Get(Arg.pv), Get(Arg.pq))
       IN  \E counted \in {0, 1} :
             /\ solver' = [solver EXCEPT !.state = "DIVERGED", !.J = Some(J),
                                         !.nb_factor = solver.nb_factor + 1,
                                         !.nb_iter = solver.nb_iter + counted]
    /\ pc' = "solved"
    /\ UNCHANGED <<net, options, self, exc, solve_call, last, probe, pp_net, model>>

\* step 4, second half: the increment is applied to the unknowns of bus 1
NewtonUpdate ==
    /\ pc = "solving"
    /\ solver.state = "FACTORIZED"
    /\ \E q \in Steps(Get(solver.V)[1], Get(Arg.pv)) :
         solver' = [solver EXCEPT !.state = "ITERATING",
                                  !.V = Some([Get(solver.V) EXCEPT ![1] = q]),
                                  !.nb_iter = solver.nb_iter + 1]
    /\ UNCHANGED <<pc, net, options, self, exc, solve_call, last, probe, pp_net, model>>

\* a voltage rebuilt with the sign of the angle reversed
FromPolarReversed(Vm, Va) == CMul(<<Vm, 0>>, CConj(Direction(Va)))

\* V = Vm * np.exp(1j * Va)
FromPolar(Vm, Va) == CMul(<<Vm, 0>>, Direction(Va))

\* solver.get_Vm(), solver.get_Va()
get_Vm == [b \in Buses |-> Get(solver.V)[b][1]]
get_Va == [b \in Buses |-> Get(solver.V)[b][2]]

\* what newtonpf returns and runpp stores: V, converged, iterations, J
Response == [V |-> [b \in Buses |-> FromPolar(get_Vm[b], get_Va[b])],
             converged |-> solver.state = "CONVERGED",
             iterations |-> solver.nb_iter, J |-> solver.J]

\* runpp after solver.solve returned (lines 168-214): the results are read and stored
StoreResults ==
    /\ pc = "solved"
    /\ LET success == Response.converged
       IN  /\ self' = [self EXCEPT !.V = Some(Response.V),
                                   !.ppci = Some(store_internal(Get(self.ppci), success)),
                                   !.bus = Some(ppci_to_pfsoln(Get(self.bus))),
                                   !.gen = Some(ppci_to_pfsoln(Get(self.gen))),
                                   !.branch = Some(ppci_to_pfsoln(Get(self.branch)))]
           /\ net' = [net EXCEPT !.converged = success]
           /\ last' = IF options.need_reset /\ success THEN Some(Arg.Sbus) ELSE None
    /\ pc' = "idle"
    /\ options' = NoOptions
    /\ UNCHANGED <<solver, exc, solve_call, pp_net, model>>

RunppFinish == StoreResults /\ UNCHANGED probe

\* the same, with the response and the terminal state kept for the next solve to compare
RunppFinishKept ==
    /\ StoreResults
    /\ probe' = Some([response |-> Response, terminal |-> solver.state])

-----------------------------------------------------------------------------
(* init: a pandapower network converted to a GridModel *)

\* pp_net.gen rows; bus indices 0..1, powers in MW, voltages in percent of a per unit
GenRows == [bus : {0, 1}, slack : BOOLEAN, in_service : BOOLEAN, p_mw : {10, 20},
            vm_pu : {100}, min_q_mvar : {-50}, max_q_mvar : {50}]

SeqsUpTo(S, n) == UNION {[1..k -> S] : k \in 0..n}

PpNets == [gen : SeqsUpTo(GenRows, MaxGen),
           load : [1..1 -> [p_mw : {15, 30}, in_service : BOOLEAN]],
           line : [1..1 -> [in_service : BOOLEAN]],
           shunt : [1..1 -> [in_service : BOOLEAN]],
           trafo : [1..1 -> [in_service : BOOLEAN]],
           ext_grid : [1..1 -> [bus : {0, 1}, vm_pu : {105}]]]

RECURSIVE SumP(_)
SumP(rows) == IF rows = <<>> THEN 0 ELSE rows[1].p_mw + SumP(Tail(rows))

\* table[col].values
Column(rows, col) == [i \in 1..Len(rows) |-> rows[i][col]]

\* np.where(flags)[0]: the ids (0-based, as in numpy) at which flags holds
Where(flags) == {i - 1 : i \in {k \in 1..Len(flags) : flags[k]}}

\* the ids an enumerate(table["in_service"].values) loop deactivates
OutOfService(rows) == Where([i \in 1..Len(rows) |-> ~rows[i].in_service])

\* pp_net.gen["bus"].values == slack_bus_id
OnExtGridBus(net0) == [i \in 1..Len(net0.gen) |-> net0.gen[i].bus = net0.ext_grid[1].bus]

\* an imbalance taken as generation minus load
SyntheticPReversed(net0) == SumP(net0.gen) - SumP(net0.load)

\* the generator that is created when no generator can act as slack
SyntheticP(net0) == SumP(net0.load) - SumP(net0.gen)
SyntheticMinQ == -999999
SyntheticMaxQ == 99999
SyntheticGen(net0) ==
    [p_mw |-> SyntheticP(net0), vm_pu |-> net0.ext_grid[1].vm_pu,
     bus |-> net0.ext_grid[1].bus, min_q_mvar |-> SyntheticMinQ, max_q_mvar |-> SyntheticMaxQ]

\* np.any(pp_net.gen["slack"].values)
AnySlack(net0) == \E i \in 1..Len(net0.gen) : net0.gen[i].slack

\* np.any(pp_net.gen["bus"].values == slack_bus_id)
GenOnExtGridBus(net0) == \E i \in 1..Len(net0.gen) : net0.gen[i].bus = net0.ext_grid[1].bus

\* model.init_generators(p, v, min_q, max_q, bus)
init_generators(rows) ==
    [p |-> Column(rows, "p_mw"), v |-> Column(rows, "vm_pu"),
     min_q |-> Column(rows, "min_q_mvar"),
     max_q |-> Column(rows, "max_q_mvar"),
     bus |-> Column(rows, "bus")]

\* the generator ids handed to add_gen_slackbus
SlackGenIds(net0) ==
    IF AnySlack(net0) THEN Where(Column(net0.gen, "slack"))
    ELSE IF GenOnExtGridBus(net0)
         THEN Where(OnExtGridBus(net0))
         ELSE {Len(net0.gen)}

\* the rows of the last init_generators call
GeneratorRows(net0) ==
    IF ~AnySlack(net0) /\ ~GenOnExtGridBus(net0)
    THEN Append([i \in 1..Len(net0.gen) |->
                    [p_mw |-> net0.gen[i].p_mw, vm_pu |-> net0.gen[i].vm_pu,
                     bus |-> net0.gen[i].bus, min_q_mvar |-> net0.gen[i].min_q_mvar,
                     max_q_mvar |-> net0.gen[i].max_q_mvar]],
                SyntheticGen(net0))
    ELSE net0.gen

\* init(pp_net): the calls made on the GridModel, in the state they leave it in
init(net0) ==
    [deactivated_powerline |-> OutOfService(net0.line),
     deactivated_shunt |-> OutOfService(net0.shunt),
     deactivated_trafo |-> OutOfService(net0.trafo),
     load_p |-> Column(net0.load, "p_mw"),
     deactivated_load |-> OutOfService(net0.load),
     generators |-> init_generators(GeneratorRows(net0)),
     deactivated_gen |-> OutOfService(net0.gen),
     changed_v_gen |-> IF AnySlack(net0) THEN Where(Column(net0.gen, "slack")) ELSE {},
     slack_gen_id |-> SlackGenIds(net0)]

InitCall ==
    /\ model = None
    /\ model' = Some(init(pp_net))
    /\ UNCHANGED <<pp_net>>
    /\ UNCHANGED runppVars

-----------------------------------------------------------------------------
(* Specifications *)

RunppInit ==
    /\ pc = "idle"
    /\ net \in {n \in Nets : ~n.converged}
    /\ options = NoOptions
    /\ self = NewInstance
    /\ solver = FreshSolver
    /\ exc = NoException
    /\ solve_call = None
    /\ last = None
    /\ probe = None

NoPpNet == [gen |-> <<>>, load |-> <<[p_mw |-> 15, in_service |-> TRUE]>>,
            line |-> <<[in_service |-> TRUE]>>, shunt |-> <<[in_service |-> TRUE]>>,
            trafo |-> <<[in_service |-> TRUE]>>,
            ext_grid |-> <<[bus |-> 0, vm_pu |-> 105]>>]

Init ==
    /\ RunppInit
    /\ pp_net = NoPpNet
    /\ model = None

RunppCall ==
    \E n \in {x \in Nets : ~x.converged}, m \in 0..MaxIter, need_reset \in BOOLEAN,
       enforce_q_lims \in BOOLEAN, init_dc \in BOOLEAN :
        Runpp(n, m, need_reset, enforce_q_lims, init_dc)

Next ==
    \/ RunppCall
    \/ NewtonConverged
    \/ NewtonMaxIter
    \/ NewtonFactorize
    \/ NewtonDiverge
    \/ NewtonUpdate
    \/ RunppFinish

Spec == Init /\ [][Next]_vars

\* the solves of a network whose bus 1 is a PQ bus, without dc start and reactive
\* limits; each response is kept until the next solve returns
KeptCall ==
    \E line \in BOOLEAN, load \in Loads, m \in 0..MaxIter, need_reset \in BOOLEAN :
        Runpp([line |-> line, gen |-> FALSE, load |-> load, converged |-> FALSE],
              m, need_reset, FALSE, FALSE)

KeptNext ==
    \/ KeptCall
    \/ NewtonConverged
    \/ NewtonMaxIter
    \/ NewtonFactorize
    \/ NewtonDiverge
    \/ NewtonUpdate
    \/ RunppFinishKept

KeptSpec == Init /\ [][KeptNext]_vars

ConvInit ==
    /\ pc = "idle"
    /\ net = [line |-> TRUE, gen |-> FALSE, load |-> <<0, 0>>, converged |-> FALSE]
    /\ options = NoOptions
    /\ self = NewInstance /\ solver = FreshSolver /\ exc = NoException /\ solve_call = None
    /\ last = None /\ probe = None
    /\ pp_net \in PpNets
    /\ model = None

ConvSpec == ConvInit /\ [][InitCall]_vars

-----------------------------------------------------------------------------
(* Properties *)

\* the solve's start voltage already has a mismatch below the tolerance
StartBelowTolerance ==
    BelowTolerance(Get(Arg.Ybus), Get(Arg.V), Arg.Sbus, Get(Arg.pv), Get(Arg.pq))

\* C1: every runpp call that is not rejected for its configuration, with need_reset
\* True or False, ends with the solver in exactly one of CONVERGED, DIVERGED,
\* MAX_ITER_EXCEEDED and an iteration count of at most max_iteration.
C1_SolveEndsInTerminalState ==
    /\ exc \in {NoException, "NotImplementedError"}
    /\ (solve_call # None /\ pc # "solving") =>
           (solver.state \in Terminal /\ solver.nb_iter <= Arg.max_it)

AfterConvergedColdSolve == last # None /\ Get(last) = Arg.Sbus

\* C3: a need_reset = False solve that follows a converged need_reset = True solve
\* with the same Sbus starts from the stored voltage and returns CONVERGED after 0
\* iterations with the voltage unchanged.
C3_WarmStartRoundTrip ==
    (pc = "solved" /\ ~options.need_reset /\ AfterConvergedColdSolve) =>
        /\ Arg.V = self.V
        /\ solver.state = "CONVERGED"
        /\ solver.nb_iter = 0
        /\ Response.V = Get(self.V)

C3_Witness ==
    /\ pc = "solved" /\ ~options.need_reset /\ AfterConvergedColdSolve
    /\ Get(self.V)[1] # COne
    /\ solver.state = "CONVERGED"

\* C4: the response tells the terminal state: two solves that return the same
\* response (V, converged, iterations, J) ended in the same terminal state.
C4_TerminalStatesDistinguishable ==
    (pc = "solved" /\ probe # None /\ Get(probe).response = Response) =>
        Get(probe).terminal = solver.state

\* C5: the solver never runs for a call that asks for enforce_q_lims.
C5_QLimsRejectedBeforeSolve == ~(pc = "solving" /\ options.enforce_q_lims)

\* C6: a runpp call that raises leaves the instance and the solver as they were.
C6_AllOrNothing ==
    [][(pc = "idle" /\ pc' = "idle" /\ exc' # NoException) => (self' = self /\ solver' = solver)]_vars

\* C7: the Ybus handed to solver.solve is the one of the net of that call.
C7_YbusOfCurrentNet == (pc = "solving") => (Arg.Ybus = Some(makeYbus(pd2ppc(net))))

\* the synthetic slack generator is the last generator of the model and is the slack
SyntheticSlackRegistered ==
    LET m == Get(model)
        n == Len(pp_net.gen)
    IN  /\ Len(m.generators.bus) = n + 1
        /\ m.generators.bus[n + 1] = pp_net.ext_grid[1].bus
        /\ m.generators.v[n + 1] = pp_net.ext_grid[1].vm_pu
        /\ m.generators.p[n + 1] = SumP(pp_net.load) - SumP(pp_net.gen)
        /\ m.generators.min_q[n + 1] <= -99999
        /\ m.generators.max_q[n + 1] >= 99999
        /\ m.slack_gen_id = {n}

NoSlackFlag == \A i \in 1..Len(pp_net.gen) : ~pp_net.gen[i].slack
NoGenAtExtGrid == \A i \in 1..Len(pp_net.gen) : pp_net.gen[i].bus # pp_net.ext_grid[1].bus

\* C8 as stated: whenever no generator is flagged slack, init substitutes the
\* synthetic slack generator and registers it.
C8_SyntheticWheneverNoSlackFlag ==
    (model # None /\ NoSlackFlag) => SyntheticSlackRegistered

\* C8 amended: whenever no generator is flagged slack and no generator sits on the
\* first ext_grid bus, init substitutes the synthetic slack generator and registers it.
C8_SyntheticSlack ==
    (model # None /\ NoSlackFlag /\ NoGenAtExtGrid) => SyntheticSlackRegistered

C8_Witness ==
    /\ model # None /\ NoSlackFlag /\ NoGenAtExtGrid
    /\ Len(pp_net.gen) = 2
    /\ Get(model).slack_gen_id = {2}

\* C9: the generators registered as slack sit on one bus and one of them is in service.
C9_OneActiveSlackBus ==
    model # None =>
        LET m == Get(model)
        IN  /\ \A g, h \in m.slack_gen_id : m.generators.bus[g + 1] = m.generators.bus[h + 1]
            /\ \E g \in m.slack_gen_id : g \notin m.deactivated_gen

\* C10: the V, Ybus, pv and pq handed to solver.solve are set.
C10_SolveArgumentsSet ==
    solve_call # None =>
        (Arg.V # None /\ Arg.Ybus # None /\ Arg.pv # None /\ Arg.pq # None)

====
